---- MODULE Spec2Model ----
(***************************************************************************)
(* State-machine model of the capture-job queue page controller            *)
(* (lib/django/djff/static/djff/old_cq_interface.js).                      *)
(*                                                                         *)
(* The page is single threaded: every handler (a click, a sortable event,  *)
(* a timer, an ajax callback) runs to completion, so each handler is one   *)
(* action.  A handler is written as a function on the record of the page   *)
(* state (Cur), exactly in the order of its statements, and the action     *)
(* commits the resulting record (Commit).                                  *)
(***************************************************************************)
EXTENDS Integers, Sequences, FiniteSets, TLC

VARIABLES
    xp_id_attr,            \* $('#xp_display_wrapper').attr('data-xp_id')
    xp_select_display,     \* $('#xp_select_wrapper').css('display')
    current_job_display,   \* $('#current_job_wrapper').css('display')
    staged_job_display,    \* $('#staged_job_wrapper').css('display')
    capture_job_queue,     \* job items of $('#capture_job_queue'), in order
    queue_placeholder,     \* <li id="queue_placeholder"> is in the list
    push_queue_on_update,  \* window.ff.push_queue_on_update
    fishface_monitoring,   \* window.fishface_monitoring
    fishface_update_loop,  \* window.fishface_update_loop (0: undefined)
    intervals,             \* ids of the live window.setInterval timers
    keep_job_in_queue,     \* window.ff.keep_job_in_queue
    drag,                  \* the sortable gesture in progress
    no_change_during_run,  \* number of warning divs shown (one removal timer each)
    timeouts,              \* pending window.setTimeout(repop_now, ...) timers
    set_queue_calls,       \* 'cjc.set_queue' calls awaiting their callback
    abort_all_calls,       \* 'cjc.abort_all' calls awaiting their callback
    status_calls,          \* 'cjc.complete_status' calls in flight, in issue order
    sent,                  \* the celery_async calls issued by the last handler
    scheduled,             \* timers created by the last handler
    failed,                \* the last handler ended in an uncaught TypeError
    store_current_job,     \* the snapshot applied last had a current_job
    ordering,              \* the issue order of responses is recorded (stale, race)
    stale,                 \* it applied a response that a later call's had overtaken
    race,                  \* two set_queue calls were in flight together, and every
                           \* call issued since descends from their callbacks
    lastOp,                \* the handler that ran last
    lastData               \* the snapshot handed to it (repopulate_fields)

vars == <<xp_id_attr, xp_select_display, current_job_display, staged_job_display,
          capture_job_queue, queue_placeholder, push_queue_on_update,
          fishface_monitoring, fishface_update_loop, intervals, keep_job_in_queue,
          drag, no_change_during_run, timeouts, set_queue_calls, abort_all_calls,
          status_calls, sent, scheduled, failed, store_current_job, ordering,
          stale, race,
          lastOp, lastData>>

(***************************************************************************)
(* Bounds of the model.                                                    *)
(***************************************************************************)
MaxQueue == 2        \* longest working copy built by dragging templates in
MaxPending == 2      \* calls in flight plus pending one-shot re-polls
MaxWarnings == 1     \* warning divs on the page
MaxIntervals == 2    \* live interval timers

(***************************************************************************)
(* Values.                                                                 *)
(***************************************************************************)
Undefined == "undefined"       \* a missing field
JsFalse == "#false"            \* the boolean false (not the string 'false')
XpIds == {"1"}                 \* primary keys of experiments
ServerQueue == <<"A", "B">>
FreshJob == "T"                \* the job template dragged in from .fresh_cjt

\* The data of a 'cjc.complete_status' response: every field may be missing.
\* current_job / staged_job: the field is present; has_queue: data.queue is.
Snapshots ==
    {d \in [xp_id : {Undefined, "1"}, current_job : BOOLEAN, staged_job : BOOLEAN,
            has_queue : BOOLEAN, queue : {<<>>, ServerQueue}] :
        ~d.has_queue => d.queue = <<>>}

NoData == [xp_id |-> Undefined, current_job |-> FALSE, staged_job |-> FALSE,
           has_queue |-> FALSE, queue |-> <<>>]

NoDrag == [kind |-> "none", from |-> 0, detached |-> FALSE]

NoArg == [kind |-> "none", queue |-> <<>>, xp_id |-> Undefined]
Payload(q, x) == [kind |-> "object", queue |-> q, xp_id |-> x]

(***************************************************************************)
(* The page state a handler works on.  The per-handler records (sent,      *)
(* scheduled, failed) start empty in every handler.                        *)
(***************************************************************************)
Cur ==
    [xp_id_attr |-> xp_id_attr, xp_select_display |-> xp_select_display,
     current_job_display |-> current_job_display,
     staged_job_display |-> staged_job_display,
     capture_job_queue |-> capture_job_queue,
     queue_placeholder |-> queue_placeholder,
     push_queue_on_update |-> push_queue_on_update,
     fishface_monitoring |-> fishface_monitoring,
     fishface_update_loop |-> fishface_update_loop,
     intervals |-> intervals, keep_job_in_queue |-> keep_job_in_queue,
     drag |-> drag, no_change_during_run |-> no_change_during_run,
     timeouts |-> timeouts, set_queue_calls |-> set_queue_calls,
     abort_all_calls |-> abort_all_calls, status_calls |-> status_calls,
     sent |-> <<>>, scheduled |-> 0, failed |-> FALSE, stale |-> FALSE]

WithinBounds(s) ==
    /\ Len(s.capture_job_queue) <= MaxQueue
    /\ Len(s.status_calls) + s.set_queue_calls + s.abort_all_calls + s.timeouts
           <= MaxPending
    /\ s.no_change_during_run <= MaxWarnings
    /\ Cardinality(s.intervals) <= MaxIntervals

\* Callbacks and timers: the handlers a set_queue call leads to by itself.
Descendants == {"set_queue_done", "timeout", "repopulate_fields"}

Racing(s, op) ==
    IF ~ordering THEN FALSE
    ELSE IF s.set_queue_calls >= 2 THEN TRUE
    ELSE IF op \notin Descendants /\ (s.sent # <<>> \/ s.scheduled > 0) THEN FALSE
    ELSE race

CommitValue(s, op, data) ==
    /\ WithinBounds(s)
    /\ xp_id_attr' = s.xp_id_attr
    /\ xp_select_display' = s.xp_select_display
    /\ current_job_display' = s.current_job_display
    /\ staged_job_display' = s.staged_job_display
    /\ capture_job_queue' = s.capture_job_queue
    /\ queue_placeholder' = s.queue_placeholder
    /\ push_queue_on_update' = s.push_queue_on_update
    /\ fishface_monitoring' = s.fishface_monitoring
    /\ fishface_update_loop' = s.fishface_update_loop
    /\ intervals' = s.intervals
    /\ keep_job_in_queue' = s.keep_job_in_queue
    /\ drag' = s.drag
    /\ no_change_during_run' = s.no_change_during_run
    /\ timeouts' = s.timeouts
    /\ set_queue_calls' = s.set_queue_calls
    /\ abort_all_calls' = s.abort_all_calls
    /\ status_calls' = s.status_calls
    /\ sent' = s.sent
    /\ scheduled' = s.scheduled
    /\ failed' = s.failed
    /\ store_current_job' = (IF op = "repopulate_fields" THEN data.current_job
                              ELSE store_current_job)
    /\ ordering' = ordering
    /\ stale' = s.stale
    /\ race' = Racing(s, op)
    /\ lastOp' = op
    /\ lastData' = data

Commit(s, op, data) == \E r \in {s} : CommitValue(r, op, data)

(***************************************************************************)
(* JavaScript comparisons used by the handlers, on the values of the model *)
(* (strings and JsFalse).                                                  *)
(***************************************************************************)
\* v != false : false converts to 0 and a string to the number it spells.
LooseNeqFalse(v) == v \notin {JsFalse, "", "0"}
\* if (v) : only the empty string and false are falsy here.
Truthy(v) == v \notin {JsFalse, ""}
\* queue_array != [] : two distinct array objects are never loosely equal.
NeqFreshArray(q) == TRUE

(***************************************************************************)
(* Sequence helpers (what the sortable widget does to the list).           *)
(***************************************************************************)
RemoveAt(q, i) == [k \in 1..(Len(q) - 1) |-> IF k < i THEN q[k] ELSE q[k + 1]]
InsertAt(q, i, x) ==
    [k \in 1..(Len(q) + 1) |-> IF k < i THEN q[k] ELSE IF k = i THEN x ELSE q[k - 1]]
MoveTo(q, from, to) == InsertAt(RemoveAt(q, from), to, q[from])

(***************************************************************************)
(* cq_util and celery_async (defined outside old_cq_interface.js).         *)
(***************************************************************************)
\* cq_util.get_queue_array(): the job specs of the list items, in order.
get_queue_array(s) == s.capture_job_queue

\* cq_util.no_jobs_placeholder(): show the placeholder in an empty list.
no_jobs_placeholder(s) ==
    IF Len(s.capture_job_queue) = 0 THEN [s EXCEPT !.queue_placeholder = TRUE] ELSE s

\* cq_util.cjt_li_chunk_from_job_spec over data.queue: one item per job spec.
li_chunks(q) == q

\* window.ff.celery_async(task, callback, data, extra): the call goes to the
\* Remote Job Controller; its callback runs when the call completes.
celery_async(s, task, data, extra) ==
    LET s1 == [s EXCEPT !.sent = Append(@, [task |-> task, data |-> data, extra |-> extra])]
    IN CASE task = "cjc.set_queue" -> [s1 EXCEPT !.set_queue_calls = @ + 1]
         [] task = "cjc.abort_all" -> [s1 EXCEPT !.abort_all_calls = @ + 1]
         [] OTHER -> [s1 EXCEPT !.status_calls = Append(@, [overtaken |-> FALSE])]

(***************************************************************************)
(* The functions of old_cq_interface.js.                                   *)
(***************************************************************************)
get_xp_id(s) == IF s.xp_id_attr = "" THEN JsFalse ELSE s.xp_id_attr

\* The value check_xp_id() returns.
check_xp_id_value(s) ==
    IF get_xp_id(s) # "" /\ get_xp_id(s) # "false" /\ get_xp_id(s) # JsFalse
    THEN get_xp_id(s) ELSE JsFalse

\* The page after check_xp_id(): the selector is shown iff no experiment is chosen.
check_xp_id(s) ==
    IF check_xp_id_value(s) # JsFalse
    THEN [s EXCEPT !.xp_select_display = "none"]
    ELSE [s EXCEPT !.xp_select_display = "block"]

\* setInterval returns an id that no live timer carries.
NewIntervalId(s) ==
    CHOOSE n \in 1..(MaxIntervals + 3) : n \notin s.intervals

\* Faulty variant: start without the "already monitoring" test.
start_periodic_monitor_unguarded(s) ==
    [s EXCEPT !.fishface_update_loop = NewIntervalId(s),
              !.intervals = @ \cup {NewIntervalId(s)},
              !.fishface_monitoring = TRUE]

start_periodic_monitor(s) ==
    IF s.fishface_monitoring = FALSE
    THEN [s EXCEPT !.fishface_update_loop = NewIntervalId(s),
                   !.intervals = @ \cup {NewIntervalId(s)},
                   !.fishface_monitoring = TRUE]
    ELSE s

\* Faulty variant: stopping the monitor also drops the pending one-shot re-polls.
stop_periodic_monitor_cancels_timeouts(s) ==
    [s EXCEPT !.intervals = @ \ {s.fishface_update_loop},
              !.fishface_monitoring = FALSE,
              !.timeouts = 0]

\* Faulty variant: stopping only lowers the flag and leaves the interval timer live.
stop_periodic_monitor_flag_only(s) ==
    [s EXCEPT !.fishface_monitoring = FALSE]

stop_periodic_monitor(s) ==
    [s EXCEPT !.intervals = @ \ {s.fishface_update_loop},
              !.fishface_monitoring = FALSE]

repop_now(s) == celery_async(s, "cjc.complete_status", Payload(<<>>, Undefined),
                             [kind |-> "true", queue |-> <<>>, xp_id |-> Undefined])

\* Faulty variant: the callback schedules the re-poll only while the monitor is stopped.
repop_in_1_second_unless_monitoring(s) ==
    IF s.fishface_monitoring THEN s
    ELSE [s EXCEPT !.timeouts = @ + 1, !.scheduled = @ + 1]

repop_in_1_second(s) ==
    [s EXCEPT !.timeouts = @ + 1, !.scheduled = @ + 1]

\* Faulty variant: the emptiness test is made on the length, so an empty list is not sent.
push_entire_queue_skips_empty(s) ==
    IF Len(get_queue_array(s)) # 0
    THEN celery_async(s, "cjc.set_queue", Payload(get_queue_array(s), get_xp_id(s)), NoArg)
    ELSE s

push_entire_queue(s) ==
    IF NeqFreshArray(get_queue_array(s))
    THEN celery_async(s, "cjc.set_queue", Payload(get_queue_array(s), get_xp_id(s)), NoArg)
    ELSE s

start_queue(s) == push_entire_queue(s)

clear_queue(s) ==
    IF s.push_queue_on_update
    THEN celery_async(s, "cjc.set_queue",
                      [kind |-> "false", queue |-> <<>>, xp_id |-> Undefined],
                      Payload(<<>>, get_xp_id(s)))
    ELSE [s EXCEPT !.capture_job_queue = <<>>, !.queue_placeholder = TRUE]

\* Faulty variant: the abort is sent only while a job is known to run.
abort_all_when_running(s) ==
    IF s.push_queue_on_update THEN celery_async(s, "cjc.abort_all", NoArg, NoArg) ELSE s

abort_all(s) == celery_async(s, "cjc.abort_all", NoArg, NoArg)

\* Faulty variant: the experiment is cleared without looking at the current job panel.
change_experiment_unchecked(s) == check_xp_id([s EXCEPT !.xp_id_attr = ""])

change_experiment(s) ==
    IF s.current_job_display = "none"
    THEN check_xp_id([s EXCEPT !.xp_id_attr = ""])
    ELSE [s EXCEPT !.no_change_during_run = @ + 1, !.scheduled = @ + 1]

xp_select_submit(s, x) == repop_now(check_xp_id([s EXCEPT !.xp_id_attr = x]))

\* Faulty variant: the branch without a current job forgets to reset the push policy.
repopulate_current_job_keeps_push(s, data) ==
    IF data.current_job
    THEN start_periodic_monitor(
             [s EXCEPT !.current_job_display = "block", !.push_queue_on_update = TRUE])
    ELSE LET s1 == [s EXCEPT !.current_job_display = "none"]
         IN IF ~data.staged_job THEN stop_periodic_monitor(s1) ELSE s1

\* Faulty variant: the monitor is stopped whenever there is no current job.
repopulate_current_job_no_start(s, data) ==
    IF data.current_job
    THEN [s EXCEPT !.current_job_display = "block", !.push_queue_on_update = TRUE]
    ELSE LET s1 == [s EXCEPT !.push_queue_on_update = FALSE,
                             !.current_job_display = "none"]
         IN IF ~data.staged_job THEN stop_periodic_monitor(s1) ELSE s1

\* Faulty variant: the monitor is stopped whenever there is no current job.
repopulate_current_job_stops_on_staged(s, data) ==
    IF data.current_job
    THEN start_periodic_monitor(
             [s EXCEPT !.current_job_display = "block", !.push_queue_on_update = TRUE])
    ELSE stop_periodic_monitor([s EXCEPT !.push_queue_on_update = FALSE,
                                         !.current_job_display = "none"])

\* Lines 15-35: the current job, the push policy and the monitor.
repopulate_current_job(s, data) ==
    IF data.current_job
    THEN start_periodic_monitor(
             [s EXCEPT !.current_job_display = "block", !.push_queue_on_update = TRUE])
    ELSE LET s1 == [s EXCEPT !.push_queue_on_update = FALSE,
                             !.current_job_display = "none"]
         IN IF ~data.staged_job THEN stop_periodic_monitor(s1) ELSE s1

\* Lines 37-46: the staged job.
repopulate_staged_job(s, data) ==
    [s EXCEPT !.staged_job_display = IF data.staged_job THEN "block" ELSE "none"]

\* Lines 48-59: the queue.  data.queue.length throws when data.queue is missing.
\* Replacing the list's children detaches an item that is being dragged.
repopulate_queue(s, data, repop_xp_id) ==
    IF ~data.has_queue
    THEN [s EXCEPT !.failed = TRUE]
    ELSE LET s1 == IF s.drag.kind # "none" THEN [s EXCEPT !.drag.detached = TRUE] ELSE s
         IN IF Len(data.queue) > 0 /\ Truthy(repop_xp_id)
            THEN [s1 EXCEPT !.capture_job_queue = li_chunks(data.queue),
                            !.queue_placeholder = FALSE]
            ELSE [s1 EXCEPT !.capture_job_queue = <<>>, !.queue_placeholder = TRUE]

\* Faulty variant: the xp_id of a snapshot is adopted also without a current job.
repopulate_fields_adopts_any_xp_id(s, data) ==
    LET s1 == IF data.xp_id # Undefined
              THEN [s EXCEPT !.xp_id_attr = data.xp_id] ELSE s
        repop_xp_id == check_xp_id_value(s1)
        s2 == check_xp_id(s1)
    IN IF LooseNeqFalse(repop_xp_id)
       THEN repopulate_queue(
                repopulate_staged_job(repopulate_current_job(s2, data), data),
                data, repop_xp_id)
       ELSE s2

repopulate_fields(s, data) ==
    LET s1 == IF data.xp_id # Undefined /\ data.current_job
              THEN [s EXCEPT !.xp_id_attr = data.xp_id] ELSE s
        repop_xp_id == check_xp_id_value(s1)
        s2 == check_xp_id(s1)
    IN IF LooseNeqFalse(repop_xp_id)
       THEN repopulate_queue(
                repopulate_staged_job(repopulate_current_job(s2, data), data),
                data, repop_xp_id)
       ELSE s2

(***************************************************************************)
(* The sortable callbacks.  The widget calls, in one stack, when the       *)
(* pointer is released: beforeStop, then receive (an item from the         *)
(* template list), then update (the item came from outside or its position *)
(* changed), then stop.                                                    *)
(***************************************************************************)
sortable_start(s) == stop_periodic_monitor(s)

sortable_over(s) == [s EXCEPT !.keep_job_in_queue = "1"]

sortable_out(s) == [s EXCEPT !.keep_job_in_queue = "0"]

\* push_entire_queue(); repop_now(); start_periodic_monitor();
push_and_monitor(s) == start_periodic_monitor(repop_now(push_entire_queue(s)))

\* Faulty variant: the policy test of update is inverted.
sortable_update_inverted(s) ==
    LET s1 == [s EXCEPT !.queue_placeholder = FALSE]
        s2 == IF s1.push_queue_on_update = FALSE THEN push_and_monitor(s1) ELSE s1
    IN no_jobs_placeholder(s2)

sortable_update(s) ==
    LET s1 == [s EXCEPT !.queue_placeholder = FALSE]
        s2 == IF s1.push_queue_on_update = TRUE THEN push_and_monitor(s1) ELSE s1
    IN no_jobs_placeholder(s2)

\* Faulty variant: a deletion is pushed whatever the policy says.
sortable_beforeStop_ignores_policy(s, pos) ==
    IF s.keep_job_in_queue = "0"
    THEN LET s1 == IF pos > 0
                   THEN [s EXCEPT !.capture_job_queue = RemoveAt(@, pos)] ELSE s
             s2 == IF Len(get_queue_array(s1)) = 0 THEN no_jobs_placeholder(s1) ELSE s1
         IN push_and_monitor(s2)
    ELSE s

\* pos: the index of ui.item in the list (0: the item is no longer in the page).
sortable_beforeStop(s, pos) ==
    IF s.keep_job_in_queue = "0"
    THEN LET s1 == IF pos > 0
                   THEN [s EXCEPT !.capture_job_queue = RemoveAt(@, pos)] ELSE s
             s2 == IF Len(get_queue_array(s1)) = 0 THEN no_jobs_placeholder(s1) ELSE s1
         IN IF s2.push_queue_on_update = TRUE THEN push_and_monitor(s2) ELSE s2
    ELSE s

sortable_receive(s) == [s EXCEPT !.keep_job_in_queue = "1"]

\* stop only renames the classes of ui.item.
sortable_stop(s) == s

\* Releasing the pointer with the dragged item at index `to` of the list.
\* `moved`: what the widget finds for a detached item's position.
sortable_drop(s, to, moved) ==
    LET fresh == s.drag.kind = "fresh"
        attached == ~s.drag.detached
        placed == IF ~attached THEN s.capture_job_queue
                  ELSE IF fresh THEN InsertAt(s.capture_job_queue, to, FreshJob)
                  ELSE MoveTo(s.capture_job_queue, s.drag.from, to)
        changed == fresh \/ (IF attached THEN to # s.drag.from ELSE moved)
        s1 == [s EXCEPT !.capture_job_queue = placed,
                        !.queue_placeholder = IF attached THEN FALSE ELSE @]
        s2 == sortable_beforeStop(s1, IF attached THEN to ELSE 0)
        s3 == IF fresh THEN sortable_receive(s2) ELSE s2
        s4 == IF changed THEN sortable_update(s3) ELSE s3
    IN [sortable_stop(s4) EXCEPT !.drag = NoDrag]

(***************************************************************************)
(* Initial state: document.ready has run (lines 278-285).                  *)
(***************************************************************************)
InitPage ==
    /\ xp_id_attr = ""
    /\ xp_select_display = "block"
    /\ current_job_display = "none"
    /\ staged_job_display = "none"
    /\ capture_job_queue = <<>>
    /\ queue_placeholder = TRUE
    /\ push_queue_on_update = FALSE
    /\ fishface_monitoring = FALSE
    /\ fishface_update_loop = 0
    /\ intervals = {}
    /\ keep_job_in_queue = Undefined
    /\ drag = NoDrag
    /\ no_change_during_run = 0
    /\ timeouts = 0
    /\ set_queue_calls = 0
    /\ abort_all_calls = 0
    /\ status_calls = <<[overtaken |-> FALSE]>>
    /\ sent = <<>>
    /\ scheduled = 0
    /\ failed = FALSE
    /\ store_current_job = FALSE
    /\ stale = FALSE
    /\ race = FALSE
    /\ lastOp = "ready"
    /\ lastData = NoData

Init == InitPage /\ ordering = FALSE

(***************************************************************************)
(* Actions: one per event the page reacts to.  The pointer is busy during  *)
(* a drag, so no button is clicked then; a hidden form or button is not    *)
(* operated.                                                               *)
(***************************************************************************)
Idle == drag.kind = "none"

ChangeExperiment ==
    /\ Idle /\ xp_select_display = "none"
    /\ Commit(change_experiment(Cur), "change_experiment", NoData)

XpSelectSubmit ==
    /\ Idle /\ xp_select_display = "block"
    /\ \E x \in XpIds : Commit(xp_select_submit(Cur, x), "xp_select_submit", NoData)

StartQueue == Idle /\ Commit(start_queue(Cur), "start_queue", NoData)

ClearQueue == Idle /\ Commit(clear_queue(Cur), "clear_queue", NoData)

AbortAll == Idle /\ Commit(abort_all(Cur), "abort_all", NoData)

Refresh == Idle /\ Commit(repop_now(Cur), "refresh", NoData)

MonitorStart == Idle /\ Commit(start_periodic_monitor(Cur), "monitor_start", NoData)

MonitorStop == Idle /\ Commit(stop_periodic_monitor(Cur), "monitor_stop", NoData)

DragStart ==
    /\ Idle
    /\ \/ \E i \in 1..Len(capture_job_queue) :
            Commit([sortable_start(Cur) EXCEPT
                        !.drag = [kind |-> "item", from |-> i, detached |-> FALSE]],
                   "sortable_start", NoData)
       \/ /\ Len(capture_job_queue) < MaxQueue
          /\ Commit([sortable_start(Cur) EXCEPT
                        !.drag = [kind |-> "fresh", from |-> 0, detached |-> FALSE]],
                   "sortable_start", NoData)

DragOver == ~Idle /\ keep_job_in_queue # "1" /\ Commit(sortable_over(Cur), "sortable_over", NoData)

DragOut == ~Idle /\ keep_job_in_queue # "0" /\ Commit(sortable_out(Cur), "sortable_out", NoData)

\* What a release of the pointer amounts to: the item is dropped outside the
\* list and removed, a template is received, an item changes place, or nothing.
DropOps == {"drop_delete", "drop_receive", "drop_reorder", "drop_unmoved"}

DropOp(s, to, moved) ==
    IF s.keep_job_in_queue = "0" THEN "drop_delete"
    ELSE IF s.drag.kind = "fresh" THEN "drop_receive"
    ELSE IF (IF s.drag.detached THEN moved ELSE to # s.drag.from) THEN "drop_reorder"
    ELSE "drop_unmoved"

Drop ==
    /\ ~Idle
    /\ \E to \in 1..(Len(capture_job_queue) + 1), moved \in BOOLEAN :
          /\ to <= Len(capture_job_queue) + (IF drag.kind = "fresh" THEN 1 ELSE 0)
          /\ drag.detached => to = 1
          /\ ~drag.detached => moved
          /\ Commit(sortable_drop(Cur, to, moved), DropOp(Cur, to, moved), NoData)

\* A live interval timer fires (every 500 ms).
IntervalTick ==
    /\ intervals # {}
    /\ Commit(repop_now(Cur), "interval", NoData)

\* A setTimeout(repop_now, 1000) fires.
TimeoutFire ==
    /\ timeouts > 0
    /\ Commit(repop_now([Cur EXCEPT !.timeouts = @ - 1]), "timeout", NoData)

\* The 3000 ms timer of a warning removes one warning div.
WarningExpire ==
    /\ no_change_during_run > 0
    /\ Commit([Cur EXCEPT !.no_change_during_run = @ - 1], "warning_expire", NoData)

\* A 'cjc.set_queue' call completes: its callback is repop_in_1_second.
SetQueueDone ==
    /\ set_queue_calls > 0
    /\ Commit(repop_in_1_second([Cur EXCEPT !.set_queue_calls = @ - 1]),
              "set_queue_done", NoData)

AbortAllDone ==
    /\ abort_all_calls > 0
    /\ Commit(repop_in_1_second([Cur EXCEPT !.abort_all_calls = @ - 1]),
              "abort_all_done", NoData)

\* The response of the i-th outstanding 'cjc.complete_status' call arrives
\* with data d: responses arrive in any order.  The calls issued before it
\* that are still outstanding have been overtaken.
TakeResponse(q, i) ==
    [k \in 1..(Len(q) - 1) |->
        IF k < i THEN [overtaken |-> ordering \/ q[k].overtaken] ELSE q[k + 1]]

StatusDone ==
    \E i \in 1..Len(status_calls), d \in Snapshots :
        Commit(repopulate_fields([Cur EXCEPT !.status_calls = TakeResponse(@, i),
                                             !.stale = status_calls[i].overtaken], d),
               "repopulate_fields", d)

Next ==
    \/ ChangeExperiment \/ XpSelectSubmit \/ StartQueue \/ ClearQueue \/ AbortAll
    \/ Refresh \/ MonitorStart \/ MonitorStop
    \/ DragStart \/ DragOver \/ DragOut \/ Drop
    \/ IntervalTick \/ TimeoutFire \/ WarningExpire
    \/ SetQueueDone \/ AbortAllDone \/ StatusDone

Spec == Init /\ [][Next]_vars

\* Timers fire: a pending setTimeout callback is eventually run.
SpecFair == Spec /\ WF_vars(TimeoutFire)

\* The same page, with the issue order of the responses recorded.
InitOrdered == InitPage /\ ordering = TRUE

SpecOrdered == InitOrdered /\ [][Next]_vars

(***************************************************************************)
(* Shorthands for the claims.                                              *)
(***************************************************************************)
Applied == lastOp = "repopulate_fields"

\* repop_xp_id != false: an experiment is selected once the snapshot's xp_id
\* has been adopted.
ExperimentSelected == LooseNeqFalse(check_xp_id_value(Cur))

MonitorActive == fishface_monitoring /\ intervals = {fishface_update_loop}
MonitorInactive == ~fishface_monitoring /\ intervals = {}

(***************************************************************************)
(* C1.  PushPolicy after every snapshot application equals "the snapshot   *)
(* just applied contains a current_job", whatever experiment is selected.  *)
(***************************************************************************)
\* C1 as claimed: after every application, push_queue_on_update says whether
\* the applied snapshot has a current_job.
C1_PushPolicyAlways == Applied => (push_queue_on_update = lastData.current_job)

\* C1 amended: an application with an experiment selected (after adopting the
\* snapshot's xp_id) sets push_queue_on_update to "the snapshot has a
\* current_job"; an application with none selected leaves it as it was.
C1_PushPolicy ==
    [][lastOp' = "repopulate_fields" =>
         IF ExperimentSelected'
         THEN push_queue_on_update' = lastData'.current_job
         ELSE push_queue_on_update' = push_queue_on_update]_vars

\* A snapshot without current_job was applied with an experiment selected
\* while the monitor runs on: the policy is false although an earlier
\* snapshot (or the user) started the monitor.
C1_Witness ==
    /\ Applied /\ ExperimentSelected
    /\ ~lastData.current_job /\ lastData.staged_job
    /\ ~push_queue_on_update /\ fishface_monitoring

(***************************************************************************)
(* C2.  A snapshot with a current_job leaves the recurring monitor active, *)
(* one with neither current_job nor staged_job leaves it inactive, from    *)
(* every prior state.                                                      *)
(***************************************************************************)
\* C2 as claimed: after any application, current_job present implies the
\* monitor is active and both jobs absent implies it is inactive.
C2_MonitorAlways ==
    Applied =>
        /\ lastData.current_job => MonitorActive
        /\ (~lastData.current_job /\ ~lastData.staged_job) => MonitorInactive

\* C2 amended: the same, for applications with an experiment selected.
C2_Monitor ==
    (Applied /\ ExperimentSelected) =>
        /\ lastData.current_job => MonitorActive
        /\ (~lastData.current_job /\ ~lastData.staged_job) => MonitorInactive

\* A snapshot with a current_job has been applied and the monitor runs.
C2_Witness ==
    /\ Applied /\ ExperimentSelected /\ lastData.current_job
    /\ MonitorActive /\ current_job_display = "block"

(***************************************************************************)
(* C3.  start(); start() leaves the monitor flag and the live interval     *)
(* timers as one start() does; stop(); stop() as one stop() does.          *)
(***************************************************************************)
\* C3: a start click right after a start click, and a stop click right after
\* a stop click, change neither the flag, nor the handle, nor the live timers.
C3_Idempotent ==
    [][(lastOp = lastOp' /\ lastOp \in {"monitor_start", "monitor_stop"}) =>
         /\ fishface_monitoring' = fishface_monitoring
         /\ fishface_update_loop' = fishface_update_loop
         /\ intervals' = intervals]_vars

\* The monitor has been started by the button and exactly one timer is live.
C3_Witness ==
    lastOp = "monitor_start" /\ fishface_monitoring /\ Cardinality(intervals) = 1

(***************************************************************************)
(* C4.  A snapshot whose queue has no entries renders the placeholder as   *)
(* the queue, for an empty array and for a missing queue field alike.      *)
(***************************************************************************)
\* C4: after applying, with an experiment selected, a snapshot whose queue is
\* empty or missing, the list is the placeholder alone.
C4_EmptyQueuePlaceholder ==
    (Applied /\ ExperimentSelected /\ Len(lastData.queue) = 0) =>
        (queue_placeholder /\ capture_job_queue = <<>>)

(***************************************************************************)
(* C5.  Applying a snapshot never fails, whichever fields are missing.     *)
(***************************************************************************)
\* C5: no application ends in an uncaught error.
C5_ApplyNeverFails == Applied => ~failed

(***************************************************************************)
(* C6.  A reorder drop while PushPolicy is true issues exactly one         *)
(* replace-queue call, carrying the working copy in its new order.         *)
(***************************************************************************)
\* The step releases the pointer of a drag.
IsDrop == drag.kind # "none" /\ drag'.kind = "none"

IsSetQueue(c) == c.task = "cjc.set_queue"
IsStatus(c) == c.task = "cjc.complete_status"

\* C6: a drop that keeps the item and changes its place, with the policy true,
\* sends one set_queue call whose queue is the list after the move (the item
\* taken from its old index and put at its new one) for the selected experiment.
C6_ReorderPush ==
    [][(IsDrop /\ lastOp' = "drop_reorder" /\ push_queue_on_update) =>
         /\ Len(SelectSeq(sent', IsSetQueue)) = 1
         /\ sent'[1] = [task |-> "cjc.set_queue",
                        data |-> Payload(capture_job_queue', get_xp_id(Cur)),
                        extra |-> NoArg]
         /\ ~drag.detached =>
              \E to \in 1..Len(capture_job_queue) :
                  /\ to # drag.from
                  /\ capture_job_queue' = MoveTo(capture_job_queue, drag.from, to)]_vars

\* [A,B] with A moved to the end was pushed as [B,A].
C6_Witness ==
    /\ lastOp = "drop_reorder" /\ push_queue_on_update
    /\ capture_job_queue = <<"B", "A">>
    /\ Len(sent) = 2 /\ sent[1].data.queue = <<"B", "A">>

(***************************************************************************)
(* C7.  A drop while PushPolicy is false issues no call and schedules no   *)
(* timer; it changes only the working copy, and a deletion removes the     *)
(* dragged item from it.                                                   *)
(***************************************************************************)
\* C7: a drop with the policy false sends nothing, schedules nothing, leaves
\* the calls in flight, the timers, the monitor, the policy, the experiment
\* and the job panels alone; a deletion takes the dragged item out of the list
\* (a template that was dragged in and out leaves the list as it was).
C7_LocalDrop ==
    [][(IsDrop /\ ~push_queue_on_update) =>
         /\ sent' = <<>> /\ scheduled' = 0
         /\ UNCHANGED <<set_queue_calls, abort_all_calls, status_calls, timeouts,
                        intervals, fishface_monitoring, fishface_update_loop,
                        push_queue_on_update, xp_id_attr, xp_select_display,
                        current_job_display, staged_job_display,
                        no_change_during_run>>
         /\ (lastOp' = "drop_delete" /\ drag.kind = "item" /\ ~drag.detached) =>
                capture_job_queue' = RemoveAt(capture_job_queue, drag.from)
         /\ (lastOp' = "drop_delete" /\ (drag.kind = "fresh" \/ drag.detached)) =>
                capture_job_queue' = capture_job_queue]_vars

\* An item was dragged out of a two-item list with the policy false.
C7_Witness ==
    /\ lastOp = "drop_delete" /\ ~push_queue_on_update
    /\ Len(capture_job_queue) = 1 /\ sent = <<>> /\ scheduled = 0

(***************************************************************************)
(* C8.  A select-experiment / change-experiment intent issued while the    *)
(* last-applied snapshot contains a current_job is rejected.               *)
(***************************************************************************)
Rejected ==
    /\ xp_id_attr' = xp_id_attr
    /\ xp_select_display' = "none"
    /\ no_change_during_run' = no_change_during_run + 1
    /\ sent' = <<>>
    /\ UNCHANGED <<set_queue_calls, abort_all_calls, status_calls>>

IsIntent ==
    /\ lastOp' \in {"change_experiment", "xp_select_submit"}
    /\ <<xp_id_attr, no_change_during_run, status_calls, lastOp>>
         # <<xp_id_attr', no_change_during_run', status_calls', lastOp'>>

\* C8 as claimed: an intent issued while the snapshot applied last had a
\* current_job is rejected.
C8_RejectedWhileStoreHasJob == [][(IsIntent /\ store_current_job) => Rejected]_vars

\* C8 amended: an intent issued while the current job panel is displayed, that
\* is while the last snapshot applied with an experiment selected had a
\* current_job, is rejected.
C8_RejectedWhileJobShown ==
    [][(IsIntent /\ current_job_display = "block") => Rejected]_vars

\* A change of experiment was refused: the warning is up, the experiment kept.
C8_Witness ==
    /\ lastOp = "change_experiment" /\ current_job_display = "block"
    /\ no_change_during_run = 1 /\ xp_id_attr = "1" /\ xp_select_display = "none"
    /\ store_current_job

(***************************************************************************)
(* C9.  Each completion of a mutating call schedules exactly one delayed   *)
(* fetch-status, whatever the monitor state, so a fetch-status is          *)
(* eventually issued after it.                                             *)
(***************************************************************************)
MutationDone == lastOp \in {"set_queue_done", "abort_all_done"}

IsCompletion ==
    /\ lastOp' \in {"set_queue_done", "abort_all_done"}
    /\ set_queue_calls' + abort_all_calls' = set_queue_calls + abort_all_calls - 1

\* C9: the callback of a completed set_queue or abort_all call creates one
\* setTimeout(repop_now) and nothing else, with the monitor on or off; and
\* after a completion a one-shot timer eventually fires and issues fetch-status.
C9_OneShotAfterMutation ==
    /\ [][IsCompletion =>
            /\ timeouts' = timeouts + 1 /\ scheduled' = 1 /\ sent' = <<>>
            /\ UNCHANGED <<status_calls, intervals, fishface_monitoring>>]_vars
    /\ MutationDone ~> (lastOp = "timeout" /\ Len(sent) = 1 /\ IsStatus(sent[1]))

\* A set_queue call completed while the monitor was stopped: one re-poll pends.
C9_Witness ==
    /\ lastOp = "set_queue_done" /\ ~fishface_monitoring /\ intervals = {}
    /\ scheduled = 1 /\ timeouts >= 1

(***************************************************************************)
(* C10.  With two replace-queue calls in flight together and fetch-status  *)
(* responses arriving in any order, the rendered state after the last      *)
(* response is that of the response applied last; none is refused as       *)
(* stale.                                                                  *)
(***************************************************************************)
\* The page shows snapshot d: job panels, push policy and queue.
Rendered(d) ==
    /\ current_job_display = (IF d.current_job THEN "block" ELSE "none")
    /\ staged_job_display = (IF d.staged_job THEN "block" ELSE "none")
    /\ push_queue_on_update = d.current_job
    /\ capture_job_queue = d.queue
    /\ queue_placeholder = (Len(d.queue) = 0)

NothingPending ==
    /\ Len(status_calls) = 0 /\ timeouts = 0
    /\ set_queue_calls = 0 /\ abort_all_calls = 0

\* The last response of a race has been applied, out of issue order, with an
\* experiment selected.
RaceSettled ==
    /\ race /\ Applied /\ stale /\ NothingPending /\ ExperimentSelected

\* C10: once the responses of two racing replace-queue calls have all been
\* delivered, the page shows the snapshot of the response applied last, also
\* when that response was overtaken by a later-issued one.
C10_LastAppliedWins == RaceSettled => Rendered(lastData)

\* The same for the responses that carry a queue: this part holds.
C10_LastAppliedWinsWithQueue ==
    (RaceSettled /\ lastData.has_queue) => Rendered(lastData)

\* An overtaken response replaced the queue a later-issued one had rendered.
C10_StaleApplied ==
    /\ RaceSettled /\ lastData.has_queue /\ Rendered(lastData)
    /\ capture_job_queue = ServerQueue

(***************************************************************************)
(* C11.  Clear-queue with PushPolicy true issues a replace-queue call      *)
(* whose payload is the empty queue for the selected experiment; with      *)
(* PushPolicy false it issues no call and leaves the placeholder as the    *)
(* rendered working copy.                                                  *)
(***************************************************************************)
\* C11: after a clear-queue click with the policy true, one set_queue call was
\* sent and its data is {queue: [], xp_id: the selected experiment}; with the
\* policy false nothing was sent and the list is the placeholder alone.
C11_ClearQueue ==
    lastOp = "clear_queue" =>
        IF push_queue_on_update
        THEN /\ Len(sent) = 1 /\ IsSetQueue(sent[1])
             /\ sent[1].data = Payload(<<>>, get_xp_id(Cur))
        ELSE /\ sent = <<>> /\ capture_job_queue = <<>> /\ queue_placeholder

\* The part of C11 that holds: one set_queue call with the policy true (the
\* empty queue travels in the fourth argument), a local clear with it false.
C11_ClearQueueCallOrLocal ==
    lastOp = "clear_queue" =>
        IF push_queue_on_update
        THEN /\ Len(sent) = 1 /\ IsSetQueue(sent[1])
             /\ sent[1].extra = Payload(<<>>, get_xp_id(Cur))
        ELSE /\ sent = <<>> /\ capture_job_queue = <<>> /\ queue_placeholder

(***************************************************************************)
(* C12.  Submit (start queue) issues exactly one replace-queue call with   *)
(* the whole working copy and the selected experiment, for every value of  *)
(* PushPolicy and every working copy, the empty one included.              *)
(***************************************************************************)
\* C12: a click on the go button sends exactly one call, a set_queue whose data
\* is the list as it stands and get_xp_id(), and changes nothing else but the
\* count of set_queue calls in flight.
C12_SubmitAlwaysPushes ==
    [][lastOp' = "start_queue" =>
         /\ sent' = <<[task |-> "cjc.set_queue",
                       data |-> Payload(capture_job_queue, get_xp_id(Cur)),
                       extra |-> NoArg]>>
         /\ set_queue_calls' = set_queue_calls + 1
         /\ UNCHANGED <<capture_job_queue, push_queue_on_update, xp_id_attr,
                        status_calls, abort_all_calls, timeouts>>]_vars

\* The empty working copy was submitted with the policy false.
C12_Witness ==
    /\ lastOp = "start_queue" /\ ~push_queue_on_update /\ xp_id_attr = "1"
    /\ capture_job_queue = <<>> /\ Len(sent) = 1
    /\ sent[1].data = Payload(<<>>, "1")

(***************************************************************************)
(* C13.  Abort-all issues the abort-all call from every state and leaves   *)
(* the working copy, PushPolicy, MonitorState and the experiment alone.    *)
(***************************************************************************)
\* C13: a click on the abort button sends exactly one call, abort_all, whatever
\* the policy, the monitor and the experiment are; neither the click nor the
\* callback of the call touches the list, the policy, the monitor, the
\* experiment or the job panels.
C13_AbortAllFrame ==
    [][lastOp' \in {"abort_all", "abort_all_done"} =>
         /\ lastOp' = "abort_all" =>
               /\ sent' = <<[task |-> "cjc.abort_all", data |-> NoArg, extra |-> NoArg]>>
               /\ abort_all_calls' = abort_all_calls + 1
         /\ UNCHANGED <<capture_job_queue, queue_placeholder, push_queue_on_update,
                        fishface_monitoring, fishface_update_loop, intervals,
                        xp_id_attr, xp_select_display, current_job_display,
                        staged_job_display>>]_vars

\* Abort-all was sent with no experiment selected, the policy false and the
\* monitor stopped.
C13_Witness ==
    /\ lastOp = "abort_all" /\ xp_id_attr = "" /\ ~push_queue_on_update
    /\ ~fishface_monitoring /\ abort_all_calls = 1 /\ Len(sent) = 1

(***************************************************************************)
(* C14.  While a drag is in progress the recurring monitor is inactive,    *)
(* under every interleaving of responses, one-shot re-polls and ticks.     *)
(***************************************************************************)
\* C14: in every state between the start event of a drag and its drop, the
\* monitor flag is false and no interval timer is live.
C14_NoMonitorDuringDrag == drag.kind # "none" => MonitorInactive

\* What the start handler does guarantee: the monitor is inactive right after it.
C14_StoppedAtDragStart == lastOp = "sortable_start" => MonitorInactive

(***************************************************************************)
(* C15.  Stopping the recurring monitor never cancels a scheduled one-shot *)
(* re-poll: it eventually issues its fetch-status, whatever monitor        *)
(* start/stop events happen in between.                                    *)
(***************************************************************************)
\* The monitor was stopped (by the button or by the start of a drag).
MonitorStopped == lastOp \in {"monitor_stop", "sortable_start"}

\* C15: the number of pending one-shot timers goes down only by one, in the
\* step in which one of them fires and issues cjc.complete_status; a start or
\* a stop of the monitor leaves it as it is; and a one-shot timer pending when
\* the monitor is stopped leads to a firing that issues the fetch-status.
C15_OneShotSurvivesStop ==
    /\ [][timeouts' < timeouts =>
            /\ lastOp' = "timeout" /\ timeouts' = timeouts - 1
            /\ Len(sent') = 1 /\ IsStatus(sent'[1])]_vars
    /\ [][lastOp' \in {"monitor_stop", "monitor_start", "sortable_start"} =>
            timeouts' = timeouts]_vars
    /\ (MonitorStopped /\ timeouts > 0)
          ~> (lastOp = "timeout" /\ Len(sent) = 1 /\ IsStatus(sent[1]))

\* The monitor was stopped by the button while a one-shot re-poll was pending.
C15_Witness ==
    /\ lastOp = "monitor_stop" /\ timeouts > 0 /\ MonitorInactive

(***************************************************************************)
(* C16.  After applying a snapshot with a current_job or a staged_job the  *)
(* recurring monitor is active, also for a snapshot with only a staged_job *)
(* applied while the monitor is idle.                                      *)
(***************************************************************************)
\* C16 as claimed: after any application of a snapshot with a current_job or a
\* staged_job the monitor is active.
C16_MonitorCoupled ==
    (Applied /\ (lastData.current_job \/ lastData.staged_job)) => MonitorActive

\* C16 amended: applied with an experiment selected, a snapshot with a
\* current_job leaves the monitor active, and a snapshot with a staged_job and
\* no current_job leaves the monitor as it was, active or idle.
C16_MonitorKeptOnStaged ==
    [][(lastOp' = "repopulate_fields" /\ ExperimentSelected') =>
         /\ lastData'.current_job => MonitorActive'
         /\ (lastData'.staged_job /\ ~lastData'.current_job) =>
               UNCHANGED <<fishface_monitoring, fishface_update_loop, intervals>>]_vars

\* A snapshot with only a staged_job was applied while the monitor was idle:
\* the staged job is shown and the monitor is still idle.
C16_Witness ==
    /\ Applied /\ ExperimentSelected
    /\ lastData.staged_job /\ ~lastData.current_job
    /\ staged_job_display = "block" /\ MonitorInactive

(***************************************************************************)
(* C17.  After a drag that ends while PushPolicy is true the recurring     *)
(* monitor is active once the drop handlers have run, for every kind of    *)
(* drop: reorder, deletion, release at the original position.              *)
(***************************************************************************)
\* C17: after the handlers of a drop have run with the policy true, the
\* monitor flag is true and its interval timer is live.
C17_MonitorAfterDrop ==
    (lastOp \in DropOps /\ push_queue_on_update) => MonitorActive

\* The drops that change the list do restart the monitor.
C17_MonitorAfterChangingDrop ==
    (lastOp \in (DropOps \ {"drop_unmoved"}) /\ push_queue_on_update) => MonitorActive

(***************************************************************************)
(* C18.  At most one recurring interval timer is live, and the monitor     *)
(* flag is true exactly when that timer is live; no interval is left       *)
(* running that stop() cannot cancel.                                      *)
(***************************************************************************)
\* C18: in every state the live interval timers are none when
\* window.fishface_monitoring is false, and exactly the one whose id is in
\* window.fishface_update_loop when it is true.
C18_OneIntervalMatchesFlag ==
    /\ Cardinality(intervals) <= 1
    /\ fishface_monitoring <=> intervals # {}
    /\ intervals \subseteq {fishface_update_loop}

\* A response restarted the monitor in the middle of a drag: one timer is live.
C18_Witness ==
    /\ Applied /\ lastData.current_job /\ drag.kind = "item"
    /\ fishface_monitoring /\ intervals = {fishface_update_loop}

(***************************************************************************)
(* C19.  Whenever a snapshot is applied while an experiment is selected,   *)
(* the working copy afterwards is the snapshot's queue (the placeholder    *)
(* when it is empty): local edits not yet pushed are discarded.            *)
(***************************************************************************)
\* C19: after an application with an experiment selected the list holds the
\* jobs of the snapshot's queue, in order, and the placeholder iff there is none.
C19_SnapshotOverwrites ==
    (Applied /\ ExperimentSelected) =>
        /\ capture_job_queue = lastData.queue
        /\ queue_placeholder = (Len(lastData.queue) = 0)

\* The same for snapshots that carry a queue field: this part holds.
C19_SnapshotWithQueueOverwrites ==
    (Applied /\ ExperimentSelected /\ lastData.has_queue) =>
        /\ capture_job_queue = lastData.queue
        /\ queue_placeholder = (Len(lastData.queue) = 0)

(***************************************************************************)
(* C20.  Applying a snapshot while no experiment is selected, when it does *)
(* not carry both an xp_id and a current_job, changes nothing.             *)
(***************************************************************************)
\* C20: such an application leaves the policy, the monitor (flag, handle and
\* timers), the list with its placeholder, the job panels and the experiment
\* as they were, and does not fail.
C20_UnselectedApplyIsNoOp ==
    [][(/\ lastOp' = "repopulate_fields"
        /\ ~ExperimentSelected
        /\ ~(lastData'.xp_id # Undefined /\ lastData'.current_job)) =>
         /\ UNCHANGED <<push_queue_on_update, fishface_monitoring,
                        fishface_update_loop, intervals, capture_job_queue,
                        queue_placeholder, current_job_display,
                        staged_job_display, xp_id_attr, xp_select_display>>
         /\ ~failed']_vars

\* A snapshot with an xp_id, a staged job and an empty queue was applied with
\* no experiment selected: the monitor runs on and the list keeps its jobs.
C20_Witness ==
    /\ Applied /\ ~ExperimentSelected
    /\ lastData.xp_id = "1" /\ lastData.staged_job /\ ~lastData.current_job
    /\ lastData.has_queue /\ lastData.queue = <<>>
    /\ fishface_monitoring /\ capture_job_queue # <<>>
    /\ staged_job_display = "none"

====
